---- MODULE Spec2Model ----
(***************************************************************************)
(* Call-processing pipeline of the QA service: one Call document in the    *)
(* persistence layer, the transcription provider's jobs, the process-wide  *)
(* processedWebhooks table, and the request handlers                       *)
(*   POST /api/calls                                (CreateCall)           *)
(*   DELETE /api/calls/[callId]                     (Delete...)            *)
(*   POST /api/calls/[callId]/start-transcription   (Start...)             *)
(*   POST /api/webhooks/transcription               (Webhook...)           *)
(*   GET  /api/calls/[callId]/poll-transcription    (Poll...)              *)
(*   POST /api/analysis/run                         (Run...)               *)
(* Every handler is split at the awaits that touch shared state (the Call  *)
(* document, the provider, processedWebhooks): one action per stretch of   *)
(* code between two such awaits, so handlers of different requests         *)
(* interleave where the event loop lets them.  Requests of one route are   *)
(* kept as a bag of request records: requests in flight are unordered.     *)
(* The callId is generated by POST /api/calls, so requests that name it     *)
(* arrive only after the Call was created.  Timestamps (createdAt,         *)
(* updatedAt) are not part of this model.                                  *)
(***************************************************************************)
EXTENDS Integers, Sequences, FiniteSets, Bags, TLC

\* ---------------------------------------------------------------- bounds
\* requests per behaviour that come from outside the service: the
\* start-transcription, webhook, poll-transcription and run-analysis
\* requests of clients and of the provider (the run-analysis requests that
\* the service sends to itself are not counted)
MaxRequests == 3

\* how many of them may carry an input the handler is meant to turn away
\* (a signature header other than the HMAC, a body that fails parsing)
MaxMalformed == 1

\* ------------------------------------------------------------- constants
Null == 0           \* an absent optional field of the Call document

JobIds == 1 .. MaxRequests  \* the job submitted by start request s has id s

VARIABLES
  production,         \* process.env.NODE_ENV === 'production'
  useFirebaseStorage, \* !!process.env.NEXT_PUBLIC_FIREBASE_STORAGE_BUCKET
  useAssemblyAI,      \* !!process.env.ASSEMBLYAI_API_KEY
  audioUploaded,      \* the audio object is present at the Call's audioPath
  op,                 \* the adapter call that is followed on its own
  uploadUrlRequests,  \* number of upload URLs asked of the storage adapter
  cr,                 \* POST /api/calls requests that were turned away
  dl,                 \* DELETE /api/calls/{callId} requests
  call,               \* the Call document (calls/{callId})
  created,            \* POST /api/calls has returned the callId
  jobs,               \* provider side: state of each transcription job
  processedWebhooks,  \* webhook route: Map of processed job ids
  st,                 \* start-transcription requests, in arrival order
  wh,                 \* bag of webhook deliveries
  pl,                 \* bag of poll-transcription requests
  ra,                 \* bag of run-analysis requests
  everTranscribed,    \* history: the Call has had status transcribed
  clock               \* the instant that Date.now() returns

\* the state of the request handlers
pipeline ==
  <<production, uploadUrlRequests, call, created, jobs, processedWebhooks,
    st, wh, pl, ra, everTranscribed, cr, dl, useFirebaseStorage,
    audioUploaded, clock, useAssemblyAI>>

vars == <<pipeline, op>>

\* ---------------------------------------------------------------- bags
One(e) == SetToBag({e})

\* number of run-analysis requests that a client (not a trigger) posted
ManualRuns(runs) ==
  BagCardinality([e \in {f \in BagToSet(runs) : f.origin = "manual"}
                    |-> runs[e]])

\* number of requests that have arrived from outside the service
Requests ==
  Len(st) + BagCardinality(wh) + BagCardinality(pl) + ManualRuns(ra)
    + BagCardinality(cr) + BagCardinality(dl)

\* the request in state e moves to state f
Move(bag, e, f) == (bag (-) One(e)) (+) One(f)

\* e with the fields of f overwritten
With(e, f) == [k \in DOMAIN e |-> IF k \in DOMAIN f THEN f[k] ELSE e[k]]

\* -------------------------------------------------------------- the Call
NoCall ==
  [exists |-> FALSE, id |-> "", userId |-> "", audioPath |-> "",
   status |-> "created", createdAt |-> Null, updatedAt |-> Null,
   transcriptionJobId |-> Null, transcript |-> Null, analysis |-> Null]

\* callData of POST /api/calls: no jobId, transcript or analysis yet
NewCall(now) ==
  [exists |-> TRUE, id |-> "callId", userId |-> "userId",
   audioPath |-> "storagePath", status |-> "created", createdAt |-> now,
   updatedAt |-> now, transcriptionJobId |-> Null, transcript |-> Null,
   analysis |-> Null]

\* no adapter call is followed on its own
Idle == [fn |-> "none"]

PipelineInit ==
  /\ production \in BOOLEAN
  /\ useFirebaseStorage \in BOOLEAN
  /\ useAssemblyAI \in BOOLEAN
  /\ audioUploaded = FALSE
  /\ uploadUrlRequests = 0
  /\ cr = EmptyBag
  /\ dl = EmptyBag
  /\ call = NoCall
  /\ created = FALSE
  /\ jobs = [j \in JobIds |-> "none"]
  /\ processedWebhooks = {}
  /\ st = <<>>
  /\ wh = EmptyBag
  /\ pl = EmptyBag
  /\ ra = EmptyBag
  /\ everTranscribed = FALSE
  /\ clock = 1

Init == PipelineInit /\ op = Idle

\* Firestore DocumentReference.update(fields): merges the given fields into
\* the stored document and leaves the other fields alone
Update(c, fields) == With(c, fields)

\* variant: the write is a set with merge, which a missing document takes
UpdateThrows_Never(c) == FALSE

\* update() of a document that does not exist rejects (NOT_FOUND)
UpdateThrows(c) == ~c.exists

\* variant: the update stamps createdAt as well
At_CreatedToo(fields, now) ==
  [k \in DOMAIN fields \cup {"updatedAt", "createdAt"} |->
     IF k \in {"updatedAt", "createdAt"} THEN now ELSE fields[k]]

\* the fields of an update together with updatedAt: Date.now()
At(fields, now) ==
  [k \in DOMAIN fields \cup {"updatedAt"} |->
     IF k = "updatedAt" THEN now ELSE fields[k]]

\* the latest instant that the clock reaches
MaxClock == 2

\* time passes between two steps of the handlers
Tick ==
  /\ clock < MaxClock
  /\ clock' = clock + 1
  /\ UNCHANGED <<production, uploadUrlRequests, call, created, jobs,
                 processedWebhooks, st, wh, pl, ra, everTranscribed, cr, dl,
                 useFirebaseStorage, audioUploaded, op, useAssemblyAI>>

\* a request that has called update() holds the instant it passed
Stamped(e, now) ==
  [k \in DOMAIN e \cup {"now"} |-> IF k = "now" THEN now ELSE e[k]]

\* the request after its update() has returned
Unstamped(e) == [k \in DOMAIN e \ {"now"} |-> e[k]]

\* the request has run up to an update() call, which reads Date.now()
ReadsClock(e) == e.pc \in {"update", "fail", "setAnalyzing"}

\* Date.now() as the argument of update()
DateNow(e) == IF ReadsClock(e) THEN Stamped(e, clock) ELSE e

\* request bodies of POST /api/calls: one that createCallRequestSchema
\* accepts, JSON that fails the schema (fileName or contentType missing or
\* not a string), and text that is not JSON
CreateBodies == {"valid", "schema_invalid", "not_json"}

\* the inner try of POST /api/calls, "" when the body is accepted:
\* request.json() throws a SyntaxError on text that is not JSON and the
\* schema throws a ZodError; the inner catch answers 400 to a ZodError and
\* rethrows everything else to the outer catch, which answers 500
CreateParseResponse(body) ==
  IF body = "valid" THEN ""
  ELSE IF body = "schema_invalid" THEN "400"
  ELSE "500"

\* requests that POST /api/calls turned away while parsing
MalformedCreates == BagCardinality(cr)

\* analysis requests whose body fails runAnalysisRequestSchema
MalformedRuns ==
  BagCardinality([e \in {f \in DOMAIN ra : f.body # "valid"} |-> ra[e]])

\* deliveries whose header is not the HMAC, whose payload fails the schema
\* or whose completed payload has no transcript
MalformedWebhooks ==
  BagCardinality([e \in {v \in DOMAIN wh :
                           \/ v.sig # "valid"
                           \/ v.jobId = Null
                           \/ (v.status = "completed" /\ ~v.transcript)}
                    |-> wh[e]])

Malformed == MalformedCreates + MalformedRuns + MalformedWebhooks

\* POST /api/calls: an accepted body asks the storage adapter for an upload
\* URL and persists the new Call with status created; any other body is
\* answered before either happens
CreateCall(body) ==
  /\ IF CreateParseResponse(body) = ""
       THEN /\ ~created
            /\ uploadUrlRequests' = uploadUrlRequests + 1
            /\ call' = NewCall(clock)
            /\ created' = TRUE
            /\ UNCHANGED cr
       ELSE /\ Requests < MaxRequests
            /\ Malformed < MaxMalformed
            /\ cr' = cr (+) One([body |-> body,
                                 resp |-> CreateParseResponse(body)])
            /\ UNCHANGED <<uploadUrlRequests, call, created>>
  /\ UNCHANGED <<production, jobs, processedWebhooks, st, wh, pl, ra,
                 everTranscribed, dl, useFirebaseStorage, audioUploaded, op,
                 clock, useAssemblyAI>>

\* DELETE /api/calls/{callId} arrives; the Call document is read (404 when
\* it is missing)
DeleteGet ==
  /\ created
  /\ Requests < MaxRequests
  /\ dl' = dl (+) One(IF call.exists
                        THEN [pc |-> "delete", resp |-> ""]
                        ELSE [pc |-> "done", resp |-> "404"])
  /\ UNCHANGED <<production, uploadUrlRequests, call, created, jobs,
                 processedWebhooks, st, wh, pl, ra, everTranscribed, cr,
                 useFirebaseStorage, audioUploaded, op, clock, useAssemblyAI>>

\* the Call document is deleted
DeleteDo(e) ==
  /\ e.pc = "delete"
  /\ call' = NoCall
  /\ dl' = Move(dl, e, With(e, [pc |-> "done", resp |-> "200"]))
  /\ UNCHANGED <<production, uploadUrlRequests, created, jobs,
                 processedWebhooks, st, wh, pl, ra, everTranscribed, cr,
                 useFirebaseStorage, audioUploaded, op, clock, useAssemblyAI>>

\* history: has the document had status transcribed after this step
NoteTranscribed ==
  everTranscribed' = (everTranscribed \/ call'.status = "transcribed")

\* --------------------------------------------- transcription provider
\* the provider finishes a submitted job, with a transcript or an error
JobFinishes(j) ==
  /\ jobs[j] = "processing"
  /\ \E outcome \in {"completed", "error"} :
       jobs' = [jobs EXCEPT ![j] = outcome]
  /\ UNCHANGED <<production, uploadUrlRequests, call, created,
                 processedWebhooks, st, wh, pl, ra, everTranscribed, cr, dl,
                 useFirebaseStorage, audioUploaded, op, clock, useAssemblyAI>>

\* job status as the adapters report it: provider "error" reads "failed"
ReportedStatus(s) == IF s = "error" THEN "failed" ELSE s

\* ----------------------------------------------- transcription adapter
\* the adapter that POST /api/calls and start-transcription construct:
\* AssemblyAI when the API key is set, the mock otherwise
SelectedAdapter(key) == IF key THEN "assemblyai" ELSE "mock"

\* the adapter that the webhook route constructs
WebhookAdapter(key) == "mock"

\* the adapter that the poll route constructs: always AssemblyAI, whose
\* constructor throws when there is no API key
PollAdapter(key) == IF key THEN "assemblyai" ELSE "throws"

\* can startJob throw: the AssemblyAI adapter's request can fail, the mock
\* only makes up a job id
StartJobOutcomes(adapter) ==
  IF adapter = "assemblyai" THEN BOOLEAN ELSE {TRUE}

\* ------------------------------------------------ start-transcription
\* variant: the update advances the status but leaves the jobId out
StartTranscriptionUpdate_NoJobId(jobId) == [status |-> "transcribing"]

\* fields of the update that records the submitted job
StartTranscriptionUpdate(jobId) ==
  [transcriptionJobId |-> jobId, status |-> "transcribing"]

\* variant: the catch block marks the Call failed
StartCatchUpdate_Failed == [status |-> "failed"]

\* fields that the catch block writes when startJob throws: none, it only
\* logs and answers 500
StartCatchUpdate == <<>>

\* the client PUTs the audio to the upload URL it got from POST /api/calls
UploadAudio ==
  /\ created
  /\ ~audioUploaded
  /\ audioUploaded' = TRUE
  /\ UNCHANGED <<production, uploadUrlRequests, call, created, jobs,
                 processedWebhooks, st, wh, pl, ra, everTranscribed, cr, dl,
                 useFirebaseStorage, op, clock, useAssemblyAI>>

\* MockStorageAdapter.fileExists answers true whatever is stored
MockFileExists(uploaded) == TRUE

\* FirebaseStorageAdapter.fileExists asks the bucket
FirebaseFileExists(uploaded) == uploaded

\* the route asks fileExists only when the Firebase bucket is configured
ChecksFile(firebase) == firebase

\* the outcome of the route's storage check: is the request turned away
FileMissing(firebase, uploaded) ==
  /\ ChecksFile(firebase)
  /\ ~(IF firebase THEN FirebaseFileExists(uploaded)
                   ELSE MockFileExists(uploaded))

\* request arrives; the Call document is read (404 when it is missing)
StartGet ==
  /\ created
  /\ Requests < MaxRequests
  /\ st' = Append(st, IF call.exists
                        THEN [pc |-> "fileExists", resp |-> ""]
                        ELSE [pc |-> "done", resp |-> "404"])
  /\ UNCHANGED <<production, uploadUrlRequests, call, created, jobs,
                 processedWebhooks, wh, pl, ra, everTranscribed, cr, dl,
                 useFirebaseStorage, audioUploaded, op, clock, useAssemblyAI>>

\* the storage check and the download URL: 400 when the audio is not in
\* storage
StartFileExists(s) ==
  /\ st[s].pc = "fileExists"
  /\ st' = [st EXCEPT ![s] =
              IF FileMissing(useFirebaseStorage, audioUploaded)
                THEN [pc |-> "done", resp |-> "400"]
                ELSE [pc |-> "startJob", resp |-> ""]]
  /\ UNCHANGED <<production, uploadUrlRequests, call, created, jobs,
                 processedWebhooks, wh, pl, ra, everTranscribed, cr, dl,
                 useFirebaseStorage, audioUploaded, op, clock, useAssemblyAI>>

\* transcriptionAdapter.startJob: the provider accepts the job, or throws
StartSubmit(s) ==
  /\ st[s].pc = "startJob"
  /\ \E accepted \in StartJobOutcomes(SelectedAdapter(useAssemblyAI)) :
       IF accepted
         THEN /\ jobs' = [jobs EXCEPT ![s] = "processing"]
              /\ st' = [st EXCEPT
                          ![s] = DateNow(With(@, [pc |-> "update"]))]
              /\ UNCHANGED call
         ELSE /\ st' = [st EXCEPT ![s] = [pc |-> "done", resp |-> "500"]]
              /\ call' = Update(call, StartCatchUpdate)
              /\ UNCHANGED jobs
  /\ UNCHANGED <<production, uploadUrlRequests, created, processedWebhooks,
                 wh, pl, ra, everTranscribed, cr, dl, useFirebaseStorage,
                 audioUploaded, op, clock, useAssemblyAI>>

\* the jobId and status transcribing are persisted; success response
\* (an update of a missing document throws: 500)
StartUpdate(s) ==
  /\ st[s].pc = "update"
  /\ IF ~UpdateThrows(call)
       THEN /\ call' = Update(call, At(StartTranscriptionUpdate(s), st[s].now))
            /\ st' = [st EXCEPT ![s] = [pc |-> "done", resp |-> "200"]]
       ELSE /\ st' = [st EXCEPT ![s] = [pc |-> "done", resp |-> "500"]]
            /\ UNCHANGED call
  /\ UNCHANGED <<production, uploadUrlRequests, created, jobs,
                 processedWebhooks, wh, pl, ra, everTranscribed, cr, dl,
                 useFirebaseStorage, audioUploaded, op, clock, useAssemblyAI>>

\* ------------------------------------------------------- run-analysis
\* a run-analysis request in flight (body {callId}), not yet read
NewRun(origin) ==
  [pc |-> "get", origin |-> origin, body |-> "valid", bodyUsed |-> FALSE,
   resp |-> ""]

\* request bodies of POST /api/analysis/run: {callId} as the triggers send
\* it, and JSON that fails runAnalysisRequestSchema (callId missing or not a
\* string)
RunBodies == {"valid", "schema_invalid"}

\* variant: the request is sent twice
triggerAnalysis_Twice(runs, origin) ==
  runs (+) One(NewRun(origin)) (+) One(NewRun(origin))

\* triggerAnalysis / the poll route's fetch: fire-and-forget POST to
\* /api/analysis/run
triggerAnalysis(runs, origin) == runs (+) One(NewRun(origin))

\* variant: the precondition is not checked
HasTranscript_Unchecked(c) == TRUE

\* the precondition "call has a transcript"
HasTranscript(c) == c.transcript # Null

AnalyzingUpdate == [status |-> "analyzing"]

\* variant: status complete is written without the analysis
CompleteUpdate_StatusOnly(analysis) == [status |-> "complete"]

CompleteUpdate(analysis) == [analysis |-> analysis, status |-> "complete"]

FailedUpdate == [status |-> "failed"]

\* catch block: request.json() is read a second time; a body that was
\* already consumed rejects, and the .catch(() => ({})) yields no callId
CatchBodyHasCallId(bodyUsed) == ~bodyUsed

\* catch block: marks the Call failed when it finds the callId (a failure
\* of that update is only logged)
RunCatch(e) ==
  IF /\ CatchBodyHasCallId(e.bodyUsed)
     /\ e.body = "valid"
     /\ ~UpdateThrows(call)
    THEN call' = Update(call, At(FailedUpdate, clock))
    ELSE UNCHANGED call

\* a client (not a trigger) posts to /api/analysis/run
RunManual(body) ==
  /\ created
  /\ Requests < MaxRequests
  /\ body # "valid" => Malformed < MaxMalformed
  /\ ra' = ra (+) One(With(NewRun("manual"), [body |-> body]))
  /\ UNCHANGED <<production, uploadUrlRequests, call, created, jobs,
                 processedWebhooks, st, wh, pl, everTranscribed, cr, dl,
                 useFirebaseStorage, audioUploaded, op, clock, useAssemblyAI>>

\* the fetch of a triggered request rejects before the route is reached;
\* the sender's catch only logs
RunFetchFails(e) ==
  /\ e.pc = "get"
  /\ e.origin # "manual"
  /\ ra' = Move(ra, e, With(e, [pc |-> "done", resp |-> "fetch_failed"]))
  /\ UNCHANGED <<production, uploadUrlRequests, call, created, jobs,
                 processedWebhooks, st, wh, pl, everTranscribed, cr, dl,
                 useFirebaseStorage, audioUploaded, op, clock, useAssemblyAI>>

\* the body is read and validated: a ZodError goes to the catch block,
\* which answers 400; the Call document is fetched: 404 when it is missing,
\* 400 when it has no transcript
RunGet(e) ==
  /\ e.pc = "get"
  /\ IF e.body # "valid"
       THEN /\ RunCatch(With(e, [bodyUsed |-> TRUE]))
            /\ ra' = Move(ra, e, With(e, [bodyUsed |-> TRUE, pc |-> "done",
                                          resp |-> "400"]))
       ELSE /\ LET f == With(e, [bodyUsed |-> TRUE,
                                     pc |-> IF /\ call.exists
                                               /\ HasTranscript(call)
                                              THEN "setAnalyzing"
                                            ELSE "done",
                                     resp |-> IF ~call.exists THEN "404"
                                              ELSE IF ~HasTranscript(call)
                                                THEN "400"
                                              ELSE ""])
                 IN ra' = Move(ra, e, DateNow(f))
            /\ UNCHANGED call
  /\ UNCHANGED <<production, uploadUrlRequests, created, jobs,
                 processedWebhooks, st, wh, pl, everTranscribed, cr, dl,
                 useFirebaseStorage, audioUploaded, op, clock, useAssemblyAI>>

\* status analyzing is persisted; an update of a missing document throws
\* into the catch block
RunSetAnalyzing(e) ==
  /\ e.pc = "setAnalyzing"
  /\ IF ~UpdateThrows(call)
       THEN /\ call' = Update(call, At(AnalyzingUpdate, e.now))
            /\ ra' = Move(ra, e, With(Unstamped(e), [pc |-> "analyze"]))
       ELSE /\ RunCatch(e)
            /\ ra' = Move(ra, e, With(Unstamped(e),
                                      [pc |-> "done", resp |-> "500"]))
  /\ UNCHANGED <<production, uploadUrlRequests, created, jobs,
                 processedWebhooks, st, wh, pl, everTranscribed, cr, dl,
                 useFirebaseStorage, audioUploaded, op, clock, useAssemblyAI>>

\* llmAdapter.analyze returns an Analysis, which is persisted together with
\* status complete (200), or it throws into the catch block (500)
RunAnalyze(e) ==
  /\ e.pc = "analyze"
  /\ \E ok \in BOOLEAN :
       IF ok /\ ~UpdateThrows(call)
         THEN /\ call' = Update(call, At(CompleteUpdate(1), clock))
              /\ ra' = Move(ra, e, With(e, [pc |-> "done", resp |-> "200"]))
         ELSE /\ RunCatch(e)
              /\ ra' = Move(ra, e, With(e, [pc |-> "done", resp |-> "500"]))
  /\ UNCHANGED <<production, uploadUrlRequests, created, jobs,
                 processedWebhooks, st, wh, pl, everTranscribed, cr, dl,
                 useFirebaseStorage, audioUploaded, op, clock, useAssemblyAI>>

\* ------------------------------------------------------------ webhook
\* idempotency check: processedWebhooks.has(jobId)
AlreadyProcessed(processed, jobId) == jobId \in processed

\* variant: the job is never marked processed
MarkProcessed_Never(processed, jobId) == processed

\* processedWebhooks.set(jobId, true)
MarkProcessed(processed, jobId) == processed \cup {jobId}

\* fields of the webhook route's transcript update
WebhookTranscriptUpdate(transcript) ==
  [transcript |-> transcript, status |-> "transcribed"]

\* the query where('transcriptionJobId', '==', jobId).limit(1)
FindByJobId(c, jobId) == c.exists /\ c.transcriptionJobId = jobId

\* history: a completed delivery of the same job with the same signature
\* header has answered success
AnsweredSuccess(jobId, sig) ==
  \E v \in BagToSet(wh) :
    /\ v.jobId = jobId
    /\ v.sig = sig
    /\ v.status = "completed"
    /\ v.resp = "success"

\* length of the hex digest of an HMAC-SHA256
HexDigestLength == 64

\* x-webhook-signature headers: the HMAC of the payload, another string of
\* the same length, and a missing header (read as the empty string), which
\* also stands for every string of another length
Signatures == {"valid", "wrong", "missing"}

SignatureLength(sig) == IF sig = "missing" THEN 0 ELSE HexDigestLength

\* MockTranscriptionAdapter.verifyWebhook: crypto.timingSafeEqual compares
\* the header with the expected digest and throws a RangeError when the
\* two buffers differ in length
verifyWebhook(sig) ==
  IF SignatureLength(sig) # HexDigestLength THEN "throws"
  ELSE IF sig = "valid" THEN "true"
  ELSE "false"

\* variant: an invalid signature is never rejected
RejectsSignature_Never(isValid, prod) == FALSE

\* the 401 guard: !isValid && NODE_ENV === 'production'
RejectsSignature(isValid, prod) == ~isValid /\ prod

\* what the handler answers before its first database await, "" when it
\* goes on to the query: 500 when verifyWebhook throws, 401 for a rejected
\* signature, 400 for a payload that fails the schema (no jobId), the
\* already_processed acknowledgment
WebhookEarlyResponse(j, sig) ==
  IF verifyWebhook(sig) = "throws" THEN "500"
  ELSE IF RejectsSignature(verifyWebhook(sig) = "true", production) THEN "401"
  ELSE IF j = Null THEN "400"
  ELSE IF AlreadyProcessed(processedWebhooks, j) THEN "already_processed"
  ELSE ""

\* a delivery arrives with signature header sig, carrying the provider's
\* view of job j, or (j = Null) a payload that fails the schema; a completed
\* payload has the transcript, unless (~whole) the optional field is left
\* out; signature check, parsing and the idempotency check run before the
\* first database await
WebhookReceive(j, sig, whole) ==
  /\ j # Null => jobs[j] # "none"
  /\ ~whole => (j # Null /\ jobs[j] = "completed")
  /\ Requests < MaxRequests
  /\ (sig # "valid" \/ j = Null \/ ~whole) => Malformed < MaxMalformed
  /\ LET early == WebhookEarlyResponse(j, sig)
     IN wh' = wh (+) One(
                [pc |-> IF early = "" THEN "query" ELSE "done",
                 jobId |-> j,
                 sig |-> sig,
                 status |-> IF j = Null THEN ""
                            ELSE ReportedStatus(jobs[j]),
                 transcript |-> whole /\ j # Null /\ jobs[j] = "completed",
                 transcriptId |-> Null,
                 resp |-> early,
                 afterSuccess |-> j # Null /\ AnsweredSuccess(j, sig)])
  /\ UNCHANGED <<production, uploadUrlRequests, call, created, jobs,
                 processedWebhooks, st, pl, ra, everTranscribed, cr, dl,
                 useFirebaseStorage, audioUploaded, op, clock, useAssemblyAI>>

\* the x-webhook-signature header of the provider's own callback: the mock
\* adapter's sender signs the body with the HMAC; AssemblyAI sends the
\* configured header value, the secret itself (of the digest's length or
\* not), or no such header when no secret is set
CallbackSignatures(adapter) ==
  IF adapter = "assemblyai" THEN {"wrong", "missing"} ELSE {"valid"}

\* the payload of the provider's own callback for job j: the mock form
\* names the job in jobId, the AssemblyAI form in transcript_id
CallbackPayload(adapter, j) ==
  IF adapter = "assemblyai" THEN [jobId |-> Null, transcriptId |-> j]
  ELSE [jobId |-> j, transcriptId |-> Null]

\* AssemblyAI calls the webhook_url that startJob gave it once job j has
\* finished; the route handles the delivery as it handles every other:
\* MockTranscriptionAdapter.verifyWebhook, then transcriptionWebhookSchema,
\* which wants a jobId
AssemblyAICallback(j, sig) ==
  /\ SelectedAdapter(useAssemblyAI) = "assemblyai"
  /\ jobs[j] \in {"completed", "error"}
  /\ sig \in CallbackSignatures("assemblyai")
  /\ Requests < MaxRequests
  /\ Malformed < MaxMalformed
  /\ LET payload == CallbackPayload("assemblyai", j)
         early == WebhookEarlyResponse(payload.jobId, sig)
     IN wh' = wh (+) One(
                [pc |-> IF early = "" THEN "query" ELSE "done",
                 jobId |-> payload.jobId,
                 sig |-> sig,
                 status |-> "",
                 transcript |-> FALSE,
                 transcriptId |-> payload.transcriptId,
                 resp |-> early,
                 afterSuccess |-> FALSE])
  /\ UNCHANGED <<production, uploadUrlRequests, call, created, jobs,
                 processedWebhooks, st, pl, ra, everTranscribed, cr, dl,
                 useFirebaseStorage, audioUploaded, op, clock, useAssemblyAI>>

\* variant: a job that matches no Call is marked processed
ProcessedAfterNotFound_Marked(table, jobId) == table \cup {jobId}

\* the processed-jobs table after the 404 answer: the branch only logs
ProcessedAfterNotFound(table, jobId) == table

\* variant: a completed payload is written whether or not it has a
\* transcript
WebhookBranch_AnyCompleted(status, transcript) ==
  IF status = "completed" THEN "update"
  ELSE IF status = "failed" THEN "fail"
  ELSE "unknown"

\* the branch that the handler takes for a payload: the transcript write
\* for status completed with a transcript, the failed write for status
\* failed, the "unknown" response otherwise
WebhookBranch(status, transcript) ==
  IF status = "completed" /\ transcript THEN "update"
  ELSE IF status = "failed" THEN "fail"
  ELSE "unknown"

\* validatedPayload.transcript: the transcript of job j, or undefined
PayloadTranscript(e) == IF e.transcript THEN e.jobId ELSE Null

\* the query by transcriptionJobId returns; 404 when it is empty, the
\* "unknown" response for a payload that is neither completed with a
\* transcript nor failed
WebhookQuery(e) ==
  /\ e.pc = "query"
  /\ LET branch == WebhookBranch(e.status, e.transcript)
         f == With(e, [pc |-> IF ~FindByJobId(call, e.jobId) THEN "done"
                              ELSE IF branch = "unknown" THEN "done"
                              ELSE branch,
                       resp |-> IF ~FindByJobId(call, e.jobId) THEN "404"
                                ELSE IF branch = "unknown" THEN "unknown"
                                ELSE ""])
     IN wh' = Move(wh, e, DateNow(f))
  /\ processedWebhooks' =
       IF ~FindByJobId(call, e.jobId)
         THEN ProcessedAfterNotFound(processedWebhooks, e.jobId)
         ELSE processedWebhooks
  /\ UNCHANGED <<production, uploadUrlRequests, call, created, jobs, st, pl,
                 ra, everTranscribed, cr, dl, useFirebaseStorage,
                 audioUploaded, op, clock, useAssemblyAI>>

\* variant: the handler awaits the trigger before it answers
WebhookAfterWrite_Awaiting(e) == With(e, [pc |-> "awaitTrigger"])

\* after the write the handler calls triggerAnalysis without awaiting it and
\* returns the success response
WebhookAfterWrite(e) == With(e, [pc |-> "done", resp |-> "success"])

\* does the awaited transcript write reject: always when the document is
\* missing, and otherwise whenever the database fails the request
WriteOutcomes(c) == IF UpdateThrows(c) THEN {TRUE} ELSE BOOLEAN

\* variant: the job is marked before the write is awaited
ProcessedAfterThrow_Marked(table, jobId) == table \cup {jobId}

\* the processed-jobs table after the write has thrown: the catch block
\* answers 500 and processedWebhooks.set was not reached
ProcessedAfterThrow(table, jobId) == table

\* completed: transcript and status transcribed are persisted, analysis is
\* triggered without awaiting it, the job is marked processed; success
\* (500 when the write throws)
WebhookUpdate(e) ==
  /\ e.pc = "update"
  /\ \E thrown \in WriteOutcomes(call) :
       IF ~thrown
         THEN /\ call' =
                   Update(call,
                          At(WebhookTranscriptUpdate(PayloadTranscript(e)),
                             e.now))
              /\ ra' = triggerAnalysis(ra, "webhook")
              /\ processedWebhooks' =
                   MarkProcessed(processedWebhooks, e.jobId)
              /\ wh' = Move(wh, e, WebhookAfterWrite(Unstamped(e)))
         ELSE /\ wh' = Move(wh, e, With(Unstamped(e),
                                        [pc |-> "done", resp |-> "500"]))
              /\ processedWebhooks' =
                   ProcessedAfterThrow(processedWebhooks, e.jobId)
              /\ UNCHANGED <<call, ra>>
  /\ NoteTranscribed
  /\ UNCHANGED <<production, uploadUrlRequests, created, jobs, st, pl, cr, dl,
                 useFirebaseStorage, audioUploaded, op, clock, useAssemblyAI>>

\* variant: the failed branch writes nothing
WebhookFailedUpdate_Unwritten == <<>>

\* fields of the webhook route's update in the failed branch
WebhookFailedUpdate == [status |-> "failed"]

\* failed: status failed is persisted; the job is not marked processed
WebhookFail(e) ==
  /\ e.pc = "fail"
  /\ IF ~UpdateThrows(call)
       THEN /\ call' = Update(call, At(WebhookFailedUpdate, e.now))
            /\ wh' = Move(wh, e, With(Unstamped(e),
                                      [pc |-> "done", resp |-> "failed"]))
       ELSE /\ wh' = Move(wh, e, With(Unstamped(e),
                                      [pc |-> "done", resp |-> "500"]))
            /\ UNCHANGED call
  /\ UNCHANGED <<production, uploadUrlRequests, created, jobs,
                 processedWebhooks, st, pl, ra, everTranscribed, cr, dl,
                 useFirebaseStorage, audioUploaded, op, clock, useAssemblyAI>>

\* the handler has returned its response: the delivery is over
WebhookReturn(e) ==
  /\ e.pc = "done"
  /\ wh' = wh (-) One(e)
  /\ UNCHANGED <<production, uploadUrlRequests, call, created, jobs,
                 processedWebhooks, st, pl, ra, everTranscribed, cr, dl,
                 useFirebaseStorage, audioUploaded, op, clock, useAssemblyAI>>

\* -------------------------------------------------- poll-transcription
\* fields of the poll route's transcript update
PollTranscriptUpdate(transcript) ==
  [transcript |-> transcript, status |-> "transcribed"]

\* request arrives; the Call document is read: 404 when it is missing, 400
\* when it has no transcriptionJobId; then the adapter is constructed, and
\* the catch block answers 500 when the constructor throws
PollGet ==
  /\ created
  /\ Requests < MaxRequests
  /\ LET resp == IF ~call.exists THEN "404"
                 ELSE IF call.transcriptionJobId = Null THEN "400"
                 ELSE IF PollAdapter(useAssemblyAI) = "throws" THEN "500"
                 ELSE ""
     IN pl' = pl (+) One(
                [pc |-> IF resp = "" THEN "getJobStatus" ELSE "done",
                 jobId |-> IF call.exists THEN call.transcriptionJobId
                           ELSE Null,
                 resp |-> resp])
  /\ UNCHANGED <<production, uploadUrlRequests, call, created, jobs,
                 processedWebhooks, st, wh, ra, everTranscribed, cr, dl,
                 useFirebaseStorage, audioUploaded, op, clock, useAssemblyAI>>

\* transcriptionAdapter.getJobStatus returns the provider's view of the job
PollGetJobStatus(e) ==
  /\ e.pc = "getJobStatus"
  /\ LET status == ReportedStatus(jobs[e.jobId])
         f == With(e, [pc |-> IF status = "completed" THEN "update"
                              ELSE IF status = "failed" THEN "fail"
                              ELSE "done",
                       resp |-> IF status \in {"completed", "failed"}
                                  THEN ""
                                ELSE "in_progress"])
     IN pl' = Move(pl, e, DateNow(f))
  /\ UNCHANGED <<production, uploadUrlRequests, call, created, jobs,
                 processedWebhooks, st, wh, ra, everTranscribed, cr, dl,
                 useFirebaseStorage, audioUploaded, op, clock, useAssemblyAI>>

\* completed: transcript and status transcribed are persisted and analysis
\* is triggered without awaiting it
PollUpdate(e) ==
  /\ e.pc = "update"
  /\ IF ~UpdateThrows(call)
       THEN /\ call' = Update(call, At(PollTranscriptUpdate(e.jobId), e.now))
            /\ ra' = triggerAnalysis(ra, "poll")
            /\ pl' = Move(pl, e,
                       With(Unstamped(e),
                            [pc |-> "done", resp |-> "completed"]))
       ELSE /\ pl' = Move(pl, e, With(Unstamped(e),
                                      [pc |-> "done", resp |-> "500"]))
            /\ UNCHANGED <<call, ra>>
  /\ NoteTranscribed
  /\ UNCHANGED <<production, uploadUrlRequests, created, jobs,
                 processedWebhooks, st, wh, cr, dl, useFirebaseStorage,
                 audioUploaded, op, clock, useAssemblyAI>>

\* failed: status failed is persisted
PollFail(e) ==
  /\ e.pc = "fail"
  /\ IF ~UpdateThrows(call)
       THEN /\ call' = Update(call, At(FailedUpdate, e.now))
            /\ pl' = Move(pl, e, With(Unstamped(e),
                                      [pc |-> "done", resp |-> "failed"]))
       ELSE /\ pl' = Move(pl, e, With(Unstamped(e),
                                      [pc |-> "done", resp |-> "500"]))
            /\ UNCHANGED call
  /\ UNCHANGED <<production, uploadUrlRequests, created, jobs,
                 processedWebhooks, st, wh, ra, everTranscribed, cr, dl,
                 useFirebaseStorage, audioUploaded, op, clock, useAssemblyAI>>

\* ----------------------------------------------- OpenAILLMAdapter.analyze
\* what one chat.completions.create request comes to: the request throws,
\* the completion has no content, the content is not JSON, the JSON fails
\* analysisSchema, the JSON passes it
Completions ==
  {"request_error", "empty", "not_json", "schema_invalid", "valid"}

\* an analyze call before its first request
AnalyzeCalls ==
  {[fn |-> "analyze", pc |-> "first", requests |-> 0, first |-> "",
    repair |-> "", result |-> ""]}

\* the first attempt: one request; its content is parsed and validated and
\* returned, and whatever is thrown on the way lands in the catch block
\* that calls retryWithRepair
AnalyzeFirst(o) ==
  /\ op.fn = "analyze"
  /\ op.pc = "first"
  /\ op' = With(op, [requests |-> op.requests + 1,
                     first |-> o,
                     pc |-> IF o = "valid" THEN "done" ELSE "repair",
                     result |-> IF o = "valid" THEN "analysis" ELSE ""])
  /\ UNCHANGED pipeline

\* retryWithRepair: one more request with the repair prompt; its failure is
\* rethrown as 'Analysis failed'
AnalyzeRepair(o) ==
  /\ op.fn = "analyze"
  /\ op.pc = "repair"
  /\ op' = With(op, [requests |-> op.requests + 1,
                     repair |-> o,
                     pc |-> "done",
                     result |-> IF o = "valid" THEN "analysis" ELSE "error"])
  /\ UNCHANGED pipeline

\* --------------------------------------- OpenAILLMAdapter.validateAnalysis
\* how many timestamped entries the documents handed to validateAnalysis hold
MaxItems == 2

\* JSON values found at a timestamp key: the key is absent, null, a number,
\* a value of another type
Timestamps == {"undefined", "null", "number", "string"}

\* the arrays of checklist items, sales insights and missed opportunities
ListNames == {"checklist", "salesInsights", "missedOpportunities"}

\* keys of the stages object
StageNames == {"introduction", "closing"}

\* an entry of one of the arrays; text stands for its other fields
Entry(t) == [text |-> "text", timestamp |-> t]

\* a parsed model response without entries; hasEvidence tells for each stage
\* whether it has an evidence array
EmptyAnalysis(hasEvidence) ==
  [summary |-> "summary",
   checklist |-> <<>>,
   salesInsights |-> <<>>,
   missedOpportunities |-> <<>>,
   stages |-> [n \in StageNames |->
                 [present |-> TRUE, hasEvidence |-> hasEvidence[n],
                  evidence |-> <<>>]]]

RECURSIVE SumOver(_, _)
SumOver(f, S) ==
  IF S = {} THEN 0
  ELSE LET x == CHOOSE y \in S : TRUE
       IN Len(f[x]) + SumOver(f, S \ {x})

\* number of timestamped entries of a document
Entries(data) ==
  SumOver(data, ListNames)
    + SumOver([n \in StageNames |-> data.stages[n].evidence], StageNames)

\* a validateAnalysis call whose argument is still being put together
ValidateCalls ==
  {[fn |-> "validateAnalysis", pc |-> "input",
    input |-> EmptyAnalysis(h), data |-> EmptyAnalysis(h), ok |-> FALSE] :
     h \in [StageNames -> BOOLEAN]}

\* the model response holds one more entry in one of the arrays
ValidateInputEntry(list, t) ==
  /\ op.fn = "validateAnalysis"
  /\ op.pc = "input"
  /\ Entries(op.input) < MaxItems
  /\ LET d == [op.input EXCEPT ![list] = Append(@, Entry(t))]
     IN op' = With(op, [input |-> d, data |-> d])
  /\ UNCHANGED pipeline

\* the model response holds one more piece of evidence for a stage
ValidateInputEvidence(n, t) ==
  /\ op.fn = "validateAnalysis"
  /\ op.pc = "input"
  /\ op.input.stages[n].hasEvidence
  /\ Entries(op.input) < MaxItems
  /\ LET d == [op.input EXCEPT !.stages[n].evidence = Append(@, Entry(t))]
     IN op' = With(op, [input |-> d, data |-> d])
  /\ UNCHANGED pipeline

\* variant: the timestamp is passed on as it is
NormalizeTimestamp_Keep(t) == t

\* timestamp: x.timestamp === null ? undefined : x.timestamp
NormalizeTimestamp(t) == IF t = "null" THEN "undefined" ELSE t

\* array.map(x => ({...x, timestamp: ...}))
NormalizeEntries(entries) ==
  [i \in DOMAIN entries |->
     With(entries[i],
          [timestamp |-> NormalizeTimestamp(entries[i].timestamp)])]

\* preprocessAnalysisData: the three arrays and the evidence array of every
\* stage that has one
preprocessAnalysisData(data) ==
  [summary |-> data.summary,
   checklist |-> NormalizeEntries(data.checklist),
   salesInsights |-> NormalizeEntries(data.salesInsights),
   missedOpportunities |-> NormalizeEntries(data.missedOpportunities),
   stages |-> [n \in DOMAIN data.stages |->
                 IF data.stages[n].hasEvidence
                   THEN [data.stages[n] EXCEPT
                           !.evidence = NormalizeEntries(@)]
                   ELSE data.stages[n]]]

\* timestamp: z.number().nullable().optional()
timestampSchema(t) == t \in {"number", "null", "undefined"}

entriesSchema(entries) ==
  \A i \in DOMAIN entries : timestampSchema(entries[i].timestamp)

\* analysisSchema.parse accepts the document (and returns it) or throws
analysisSchema(data) ==
  /\ \A list \in ListNames : entriesSchema(data[list])
  /\ \A n \in DOMAIN data.stages : entriesSchema(data.stages[n].evidence)

\* validateAnalysis: preprocess
ValidatePreprocess ==
  /\ op.fn = "validateAnalysis"
  /\ op.pc = "input"
  /\ op' = With(op, [pc |-> "parse",
                     data |-> preprocessAnalysisData(op.input)])
  /\ UNCHANGED pipeline

\* validateAnalysis: analysisSchema.parse(preprocessed)
ValidateParse ==
  /\ op.fn = "validateAnalysis"
  /\ op.pc = "parse"
  /\ op' = With(op, [pc |-> "done", ok |-> analysisSchema(op.data)])
  /\ UNCHANGED pipeline

\* ------------------- AssemblyAITranscriptionAdapter.convertToTranscript
\* how many words or utterances the provider results hold
MaxWords == 3

\* the provider's anonymous speaker tags
Tags == {"A", "B", "C"}

\* the texts of words and utterances
Texts == {"yes", "no"}

MsPerSecond == 1000

\* x / 1000 for a time x in milliseconds, kept as a fraction
Seconds(ms) == [num |-> ms, den |-> MsPerSecond]

\* the k-th word or utterance of a provider result, times in milliseconds
Timed(k, tag, text) ==
  [speaker |-> tag, start |-> 2 * k - 1, end |-> 2 * k, text |-> text]

\* a convertToTranscript call whose argument is still being put together:
\* a result with utterances, or one that has words only
ConvertCalls ==
  {[fn |-> "convertToTranscript", pc |-> "input", hasUtterances |-> u,
    items |-> <<>>, rawSegments |-> <<>>, answer |-> "", segments |-> <<>>] :
     u \in BOOLEAN}

\* the provider result holds one more utterance (or word)
ConvertInput(tag, text) ==
  /\ op.fn = "convertToTranscript"
  /\ op.pc = "input"
  /\ Len(op.items) < MaxWords
  /\ op' = With(op, [items |->
                       Append(op.items, Timed(Len(op.items) + 1, tag, text))])
  /\ UNCHANGED pipeline

\* one raw segment per utterance
FromUtterances(utterances) ==
  [i \in DOMAIN utterances |->
     [speaker |-> utterances[i].speaker,
      start |-> Seconds(utterances[i].start),
      end |-> Seconds(utterances[i].end),
      text |-> <<utterances[i].text>>]]

\* variant: every word becomes a segment of its own
GroupWords_PerWord(words, i, currentSegment, rawSegments) ==
  [k \in DOMAIN words |->
     [speaker |-> words[k].speaker,
      start |-> Seconds(words[k].start),
      end |-> Seconds(words[k].end),
      text |-> <<words[k].text>>]]

\* the loop over words from word i on: currentSegment is <<>> for null or
\* holds the segment; a segment's text is the sequence of its pieces
RECURSIVE GroupWords(_, _, _, _)
GroupWords(words, i, currentSegment, rawSegments) ==
  IF i > Len(words)
    THEN rawSegments \o currentSegment
    ELSE IF currentSegment = <<>>
              \/ words[i].speaker # currentSegment[1].speaker
      THEN GroupWords(words, i + 1,
                      <<[speaker |-> words[i].speaker,
                         start |-> Seconds(words[i].start),
                         end |-> Seconds(words[i].end),
                         text |-> <<words[i].text>>]>>,
                      rawSegments \o currentSegment)
      ELSE GroupWords(words, i + 1,
                      <<[currentSegment[1] EXCEPT
                           !.end = Seconds(words[i].end),
                           !.text = @ \o <<" ", words[i].text>>]>>,
                      rawSegments)

\* the raw segments are built from the utterances, or grouped from the words
ConvertSegments ==
  /\ op.fn = "convertToTranscript"
  /\ op.pc = "input"
  /\ op' = With(op, [pc |-> "identify",
                     rawSegments |->
                       IF op.hasUtterances THEN FromUtterances(op.items)
                       ELSE GroupWords(op.items, 1, <<>>, <<>>)])
  /\ UNCHANGED pipeline

\* Object.keys(speakerGroups): the tags in the order in which they first
\* appear in the first i segments
RECURSIVE SpeakersOf(_, _)
SpeakersOf(segments, i) ==
  IF i = 0 THEN <<>>
  ELSE LET before == SpeakersOf(segments, i - 1)
       IN IF \E k \in DOMAIN before : before[k] = segments[i].speaker
            THEN before
            ELSE Append(before, segments[i].speaker)

\* what the role-inference request comes to: it throws (no OPENAI_API_KEY,
\* request error, content that is not JSON, techSpeaker not a string), or
\* the JSON answer's techSpeaker is one of these: a tag, a tag in lower
\* case, a letter that is no tag, the empty string, missing
Answers == {"throws", "A", "B", "c", "Z", "", "missing"}

\* response.techSpeaker?.toUpperCase()
ToUpperCase(s) ==
  IF s = "c" THEN "C"
  ELSE IF s = "missing" THEN "undefined"
  ELSE s

\* variant: the last speaker is the tech
PositionalMapping_Last(speakers) ==
  [t \in {speakers[k] : k \in DOMAIN speakers} |->
     IF t = speakers[Len(speakers)] THEN "tech" ELSE "customer"]

\* the catch block: the first speaker is the tech, the others customers
PositionalMapping(speakers) ==
  [t \in {speakers[k] : k \in DOMAIN speakers} |->
     IF t = speakers[1] THEN "tech" ELSE "customer"]

\* the mapping built from the model's answer
AnswerMapping(speakers, techSpeaker) ==
  [t \in {speakers[k] : k \in DOMAIN speakers} |->
     IF t = techSpeaker THEN "tech" ELSE "customer"]

\* identifyTechSpeaker, as a function from tags to labels
identifyTechSpeaker(segments, answer) ==
  LET speakers == SpeakersOf(segments, Len(segments))
  IN IF Len(speakers) = 0 THEN <<>>
     ELSE IF Len(speakers) = 1
       THEN [t \in {speakers[1]} |-> "unknown"]
     ELSE IF answer = "throws" THEN PositionalMapping(speakers)
     ELSE AnswerMapping(speakers, ToUpperCase(answer))

\* speakerMapping[seg.speaker] || 'unknown'
LabelOf(speakerMapping, tag) ==
  IF tag \in DOMAIN speakerMapping THEN speakerMapping[tag] ELSE "unknown"

\* the roles are inferred and the segments relabelled
ConvertIdentify(answer) ==
  /\ op.fn = "convertToTranscript"
  /\ op.pc = "identify"
  /\ LET speakerMapping == identifyTechSpeaker(op.rawSegments, answer)
     IN op' = With(op, [pc |-> "done",
                        answer |-> answer,
                        segments |->
                          [i \in DOMAIN op.rawSegments |->
                             [op.rawSegments[i] EXCEPT
                                !.speaker = LabelOf(speakerMapping, @)]]])
  /\ UNCHANGED pipeline

\* ------------------------------------------------ StoragePort.getUploadUrl
\* how many characters the userId, callId and fileName of one call hold
\* together
MaxChars == 2

\* characters of userId, callId and fileName: a letter and the separator
Chars == {"a", "/"}

InputFields == {"userId", "callId", "fileName"}

StorageAdapters == {"mock", "firebase"}

\* what generateCallId may return when input.callId is empty
GeneratedCallIds == {<<"g">>, <<"h">>}

\* two getUploadUrl calls, each with its adapter and its input
UploadUrlCalls ==
  {[fn |-> "getUploadUrl", pc |-> "input", adapters |-> a,
    inputs |-> [k \in 1 .. 2 |->
                  [userId |-> <<>>, callId |-> <<>>, fileName |-> <<>>]],
    storagePaths |-> <<>>] : a \in [1 .. 2 -> StorageAdapters]}

\* the characters of the input of one call
InputLength(input) ==
  Len(input.userId) + Len(input.callId) + Len(input.fileName)

\* the input of the k-th call gets one more character
UploadUrlInput(k, field, c) ==
  /\ op.fn = "getUploadUrl"
  /\ op.pc = "input"
  /\ InputLength(op.inputs[k]) < MaxChars
  /\ op' = With(op, [inputs |->
                       [op.inputs EXCEPT ![k][field] = Append(@, c)]])
  /\ UNCHANGED pipeline

\* MockStorageAdapter: `audio/${input.userId}/${callId}/${input.fileName}`
MockStoragePath(userId, callId, fileName) ==
  <<"audio", "/">> \o userId \o <<"/">> \o callId \o <<"/">> \o fileName

\* variant: the path leaves the userId out
FirebaseStoragePath_NoUser(userId, callId, fileName) ==
  <<"audio", "/">> \o callId \o <<"/">> \o fileName

\* FirebaseStorageAdapter: `audio/${input.userId}/${callId}/${input.fileName}`
FirebaseStoragePath(userId, callId, fileName) ==
  <<"audio", "/">> \o userId \o <<"/">> \o callId \o <<"/">> \o fileName

\* storagePath of one call; callId is input.callId || generateCallId()
StoragePathOf(adapter, input, generated) ==
  LET callId == IF input.callId = <<>> THEN generated ELSE input.callId
  IN IF adapter = "mock"
       THEN MockStoragePath(input.userId, callId, input.fileName)
       ELSE FirebaseStoragePath(input.userId, callId, input.fileName)

\* both calls return
GetUploadUrl(generated) ==
  /\ op.fn = "getUploadUrl"
  /\ op.pc = "input"
  /\ op' = With(op, [pc |-> "done",
                     storagePaths |->
                       [k \in 1 .. 2 |->
                          StoragePathOf(op.adapters[k], op.inputs[k],
                                        generated[k])]])
  /\ UNCHANGED pipeline

\* ------------------------------------------------------- GET /api/calls
\* how many documents the calls collection holds
MaxCalls == 3

\* the latest creation time of a stored Call
MaxCreatedAt == 2

\* .limit(50) of both queries
QueryLimit == 50

DocIds == 1 .. MaxCalls

CreatedAts == 1 .. MaxCreatedAt

UserIds == {"anonymous-user", "u1"}

\* the userId query parameter; "" stands for a request without it
UserIdParams == {"", "u1"}

NoDoc == [userId |-> "", createdAt |-> 0]

\* one listing of an initially empty collection, on both query paths
ListCalls ==
  {[fn |-> "listCalls", pc |-> "store", docs |-> [id \in DocIds |-> NoDoc],
    userId |-> "", indexed |-> <<>>, fallback |-> <<>>]}

\* a Call document is stored
ListStoreCall(id, userId, createdAt) ==
  /\ op.fn = "listCalls"
  /\ op.pc = "store"
  /\ op.docs[id] = NoDoc
  /\ op' = With(op, [docs |-> [op.docs EXCEPT ![id] =
                                 [userId |-> userId,
                                  createdAt |-> createdAt]]])
  /\ UNCHANGED pipeline

\* searchParams.get('userId') || 'anonymous-user'
RequestedUserId(param) == IF param = "" THEN "anonymous-user" ELSE param

\* .where('userId', '==', userId): the matching document ids
Where(docs, userId) ==
  {id \in DOMAIN docs : docs[id] # NoDoc /\ docs[id].userId = userId}

\* the ids of S as the sequence in which every pair <<a, b>> of before has
\* a ahead of b
Ordered(S, before) ==
  CHOOSE s \in [1 .. Cardinality(S) -> S] :
    \A i, j \in DOMAIN s : i < j => <<s[i], s[j]>> \in before

\* .limit(50)
Limit(s) == SubSeq(s, 1, IF Len(s) < QueryLimit THEN Len(s) ELSE QueryLimit)

\* snapshot.docs.map(doc => ({ id: doc.id, ...doc.data() }))
DocsOf(docs, ids) ==
  [k \in DOMAIN ids |->
     [id |-> ids[k], userId |-> docs[ids[k]].userId,
      createdAt |-> docs[ids[k]].createdAt]]

\* .orderBy('createdAt', 'desc'): createdAt descending, and documents with
\* equal createdAt by document id in the direction of the last orderBy
IndexedQuery(docs, userId) ==
  LET ids == Where(docs, userId)
      before ==
        {p \in ids \X ids :
           \/ docs[p[1]].createdAt > docs[p[2]].createdAt
           \/ docs[p[1]].createdAt = docs[p[2]].createdAt /\ p[1] > p[2]}
  IN DocsOf(docs, Limit(Ordered(ids, before)))

\* the query without orderBy: documents by ascending document id
UnorderedQuery(docs, userId) ==
  LET ids == Where(docs, userId)
      before == {p \in ids \X ids : p[1] < p[2]}
  IN DocsOf(docs, Limit(Ordered(ids, before)))

\* x goes behind the last entry that the comparator does not put after it
InsertStable(sorted, x) ==
  LET keep == {i \in DOMAIN sorted : sorted[i].createdAt >= x.createdAt}
      n == Cardinality(keep)
  IN SubSeq(sorted, 1, n) \o <<x>> \o SubSeq(sorted, n + 1, Len(sorted))

\* .sort((a, b) => (b.createdAt || 0) - (a.createdAt || 0)), a stable sort
RECURSIVE SortByCreatedAtDesc(_)
SortByCreatedAtDesc(calls) ==
  IF calls = <<>> THEN <<>>
  ELSE InsertStable(SortByCreatedAtDesc(SubSeq(calls, 1, Len(calls) - 1)),
                    calls[Len(calls)])

\* the catch branch: query without orderBy, then the in-memory sort
FallbackQuery(docs, userId) ==
  SortByCreatedAtDesc(UnorderedQuery(docs, userId))

\* the request is answered from the query with orderBy
ListIndexed(param) ==
  /\ op.fn = "listCalls"
  /\ op.pc = "store"
  /\ op' = With(op, [pc |-> "indexed", userId |-> RequestedUserId(param),
                     indexed |-> IndexedQuery(op.docs,
                                              RequestedUserId(param))])
  /\ UNCHANGED pipeline

\* the same request where the query with orderBy throws
ListFallback ==
  /\ op.fn = "listCalls"
  /\ op.pc = "indexed"
  /\ op' = With(op, [pc |-> "done",
                     fallback |-> FallbackQuery(op.docs, op.userId)])
  /\ UNCHANGED pipeline

\* ------------------------------------------------- removeUndefinedValues
\* how deep the arrays and objects of a value nest
MaxDepth == 2

\* JavaScript values: undefined, null, a number, arrays and plain objects
Undefined == [t |-> "undefined"]

NullValue == [t |-> "null"]

Number == [t |-> "number"]

Leaves == {Undefined, NullValue, Number}

Keys == {"a", "b"}

ArrayOf(items) == [t |-> "array", items |-> items]

\* an object is its own enumerable entries: a value for some of the keys
ObjectOf(fields) == [t |-> "object", fields |-> fields]

RECURSIVE Depth(_)
Depth(v) ==
  IF v.t = "array"
    THEN 1 + (IF v.items = <<>> THEN 0
              ELSE LET d == {Depth(v.items[i]) : i \in DOMAIN v.items}
                   IN CHOOSE m \in d : \A n \in d : n =< m)
  ELSE IF v.t = "object"
    THEN 1 + (IF DOMAIN v.fields = {} THEN 0
              ELSE LET d == {Depth(v.fields[k]) : k \in DOMAIN v.fields}
                   IN CHOOSE m \in d : \A n \in d : n =< m)
  ELSE 0

\* one cleaning of a value, as the run-analysis route does it before the
\* update
CleanCalls ==
  {[fn |-> "removeUndefinedValues", pc |-> "input", value |-> v,
    update |-> <<>>, again |-> v] : v \in Leaves}

\* the value becomes an item of an array, alone or next to a leaf
CleanInputArray(others) ==
  /\ op.fn = "removeUndefinedValues"
  /\ op.pc = "input"
  /\ Depth(op.value) < MaxDepth
  /\ op' = With(op, [value |-> ArrayOf(<<op.value>> \o others)])
  /\ UNCHANGED pipeline

\* the value becomes a field of an object, alone or next to a leaf
CleanInputObject(key, others) ==
  /\ op.fn = "removeUndefinedValues"
  /\ op.pc = "input"
  /\ Depth(op.value) < MaxDepth
  /\ key \notin DOMAIN others
  /\ op' = With(op, [value |->
                       ObjectOf([k \in DOMAIN others \cup {key} |->
                                   IF k = key THEN op.value ELSE others[k]])])
  /\ UNCHANGED pipeline

\* variant: only the fields of the value itself are looked at
removeUndefinedValues_Shallow(obj) ==
  IF obj.t \in {"null", "undefined"} THEN NullValue
  ELSE IF obj.t = "object"
    THEN ObjectOf([k \in {x \in DOMAIN obj.fields :
                            obj.fields[x] # Undefined} |-> obj.fields[k]])
  ELSE obj

RECURSIVE removeUndefinedValues(_)
removeUndefinedValues(obj) ==
  IF obj.t \in {"null", "undefined"} THEN NullValue
  ELSE IF obj.t = "array"
    THEN ArrayOf([i \in DOMAIN obj.items |->
                    removeUndefinedValues(obj.items[i])])
  ELSE IF obj.t = "object"
    THEN ObjectOf([k \in {x \in DOMAIN obj.fields :
                            obj.fields[x] # Undefined} |->
                     removeUndefinedValues(obj.fields[k])])
  ELSE obj

\* the analysis is cleaned and put into the fields of the update; the
\* cleaned value is cleaned once more for comparison
CleanAnalysis ==
  /\ op.fn = "removeUndefinedValues"
  /\ op.pc = "input"
  /\ LET cleanedAnalysis == removeUndefinedValues(op.value)
     IN op' = With(op, [pc |-> "done",
                        update |-> CompleteUpdate(cleanedAnalysis),
                        again |-> removeUndefinedValues(cleanedAnalysis)])
  /\ UNCHANGED pipeline

\* the calls that AdapterSpec starts from
AdapterCalls ==
  AnalyzeCalls \cup ValidateCalls \cup ConvertCalls \cup UploadUrlCalls
    \cup ListCalls \cup CleanCalls

\* ================================================================ claims
\* a request in state e has left that state in this step
Left(bag, bagNext, e) == CopiesIn(e, bagNext) < CopiesIn(e, bag)

\* a request has entered state f in this step
Entered(bag, bagNext, f) == CopiesIn(f, bagNext) > CopiesIn(f, bag)

\* number of webhook deliveries of job j that persisted the transcript and
\* triggered analysis (both happen in the step that answers success)
WebhookSuccesses(j) ==
  BagCardinality([e \in {f \in BagToSet(wh) :
                           f.jobId = j /\ f.resp = "success"} |-> wh[e]])

\* number of polls of job j that persisted the transcript and triggered
\* analysis (both happen in the step that answers completed)
PollCompletions(j) ==
  BagCardinality([e \in {f \in BagToSet(pl) :
                           f.jobId = j /\ f.resp = "completed"} |-> pl[e]])

\* C1: a completed delivery of a job that starts after a completed delivery
\* of the same job has answered success is answered already_processed at
\* once: it never reaches the query or the update, so it writes nothing and
\* the first delivery's write and transition stay the only ones
C1_DuplicateDeliveryIsNoOp ==
  \A e \in BagToSet(wh) :
    (e.status = "completed" /\ e.afterSuccess)
      => (e.pc = "done" /\ e.resp = "already_processed")

C1_Witness ==
  \E e \in BagToSet(wh) :
    /\ e.status = "completed"
    /\ e.afterSuccess
    /\ e.resp = "already_processed"
    /\ WebhookSuccesses(e.jobId) = 1

\* C2: for every jobId, over all completed webhook deliveries, interleaved
\* ones included, at most one delivery writes the transcript and triggers
\* analysis
C2_AtMostOncePerJob == \A j \in JobIds : WebhookSuccesses(j) =< 1

\* C3: for one job, a poll and a webhook delivery that both observe
\* completed do not both write the transcript and trigger analysis
C3_PollAndWebhookOnce ==
  \A j \in JobIds : ~(WebhookSuccesses(j) >= 1 /\ PollCompletions(j) >= 1)

\* C4: when a run-analysis request that has set status analyzing ends with
\* the error response, the Call's status is failed at that moment
C4_FailedBeforeErrorResponse ==
  [][\A e \in BagToSet(ra) :
       (/\ e.pc = "analyze"
        /\ Left(ra, ra', e)
        /\ Entered(ra, ra', With(e, [pc |-> "done", resp |-> "500"])))
         => call'.status = "failed"]_vars

\* C5: a run-analysis request that reads an existing Call without a
\* transcript ends there with the 400 response and the Call is not written
C5_NoTranscriptIs400 ==
  [][\A e \in BagToSet(ra) :
       (/\ e.pc = "get"
        /\ Left(ra, ra', e)
        /\ call.exists
        /\ call.transcript = Null)
         => (/\ Entered(ra, ra', With(e, [bodyUsed |-> TRUE, pc |-> "done",
                                          resp |-> "400"]))
             /\ call' = call)]_vars

C5_Witness ==
  \E e \in BagToSet(ra) :
    e.resp = "400" /\ call.exists /\ call.status = "transcribing"

\* the six transitions of the state machine
Transitions ==
  {<<"created", "transcribing">>, <<"transcribing", "transcribed">>,
   <<"transcribing", "failed">>, <<"transcribed", "analyzing">>,
   <<"analyzing", "complete">>, <<"analyzing", "failed">>}

\* C6: every change of the status of an existing Call is one of the six
\* transitions
C6_OnlySixTransitions ==
  [][(call.exists /\ call'.exists /\ call'.status # call.status)
       => <<call.status, call'.status>> \in Transitions]_vars

\* a run-analysis request posted by a client has taken a step
ManualRunActed ==
  \E e \in BagToSet(ra) : e.origin = "manual" /\ Left(ra, ra', e)

\* C7: once the status is complete or failed, only a start-transcription
\* request or a client's run-analysis request changes it: no webhook, no
\* poll and no triggered analysis run does
C7_TerminalForAutomaticPipeline ==
  [][(/\ call.exists
      /\ call.status \in {"complete", "failed"}
      /\ call'.status # call.status)
       => (st' # st \/ ManualRunActed)]_vars

\* C8: the transcript is non-null iff the status is transcribed, analyzing
\* or complete, or failed after the Call had reached transcribed
C8_TranscriptIffStatus ==
  call.exists
    => ((call.transcript # Null)
          <=> (\/ call.status \in {"transcribed", "analyzing", "complete"}
               \/ (call.status = "failed" /\ everTranscribed)))

\* C9: the analysis is non-null only if the status is complete
C9_AnalysisOnlyWhenComplete ==
  (call.exists /\ call.analysis # Null) => call.status = "complete"

\* a transcription job was submitted to the provider for the Call
JobSubmitted == \E j \in JobIds : jobs[j] # "none"

\* C10 (as stated): transcriptionJobId is non-null iff a transcription job
\* was submitted to the provider for the Call
C10_JobIdIffSubmitted ==
  call.exists => ((call.transcriptionJobId # Null) <=> JobSubmitted)

\* C10 (amended): transcriptionJobId is non-null only if it names a job
\* that was submitted for the Call, and a start-transcription request that
\* answers success has written its jobId together with status transcribing
C10_JobIdOnlyIfSubmitted ==
  /\ [](call.transcriptionJobId # Null
          => (call.transcriptionJobId \in JobIds
              /\ jobs[call.transcriptionJobId] # "none"))
  /\ [][\A s \in DOMAIN st :
          (st[s].pc = "update" /\ st'[s].resp = "200")
            => (/\ call'.transcriptionJobId = s
                /\ call'.status = "transcribing")]_vars

C10_Witness ==
  \E s \in DOMAIN st :
    /\ st[s].resp = "200"
    /\ call.transcriptionJobId = s
    /\ call.status = "transcribing"

\* C11: when the provider rejects the job submission, start-transcription
\* answers 500 and neither the Call nor the provider's jobs change
C11_SubmissionErrorLeavesCall ==
  [][\A s \in DOMAIN st :
       (st[s].pc = "startJob" /\ st'[s].pc = "done")
         => (st'[s].resp = "500" /\ call' = call /\ jobs' = jobs)]_vars

\* a first start-transcription failed at the provider with the Call still
\* created and without jobId, and the retry was accepted and recorded
C11_Witness ==
  \E s, t \in DOMAIN st :
    /\ s < t
    /\ st[s].resp = "500"
    /\ jobs[s] = "none"
    /\ st[t].resp = "200"
    /\ call.status = "transcribing"
    /\ call.transcriptionJobId = t

\* a webhook delivery has just been received and stands in state f
Arrived(f) ==
  /\ BagCardinality(wh') > BagCardinality(wh)
  /\ Entered(wh, wh', f)

\* C12: in production a delivery whose signature does not verify is answered
\* at once and writes nothing: the Call, the analysis requests and the
\* processed-jobs table are unchanged, whatever the payload
C12_BadSignatureMutatesNothing ==
  [][production =>
       \A f \in BagToSet(wh') :
         (f.sig # "valid" /\ Entered(wh, wh', f))
           => /\ f.pc = "done"
              /\ call' = call
              /\ ra' = ra
              /\ processedWebhooks' = processedWebhooks]_vars

C12_Witness ==
  /\ production
  /\ call.status = "transcribing"
  /\ \E e \in BagToSet(wh) :
       /\ e.sig = "wrong"
       /\ e.jobId = call.transcriptionJobId
       /\ e.status = "completed"
       /\ e.resp = "401"

\* C13: in production every delivery whose signature header does not match,
\* a missing header and a header of another length included, is answered 401
C13_BadSignatureIs401 ==
  production =>
    \A e \in BagToSet(wh) : e.sig # "valid" => e.resp = "401"

\* C14: outside production a well-formed completed delivery for a known job
\* whose signature header is missing or wrong is not turned away on arrival
C14_BypassOutsideProduction ==
  [][~production =>
       \A f \in BagToSet(wh') :
         (Arrived(f) /\ f.sig # "valid" /\ f.status = "completed")
           => f.resp \notin {"401", "500"}]_vars

\* the write of delivery e threw in this step: the catch block answered 500
WriteThrew(e) ==
  Entered(wh, wh', With(Unstamped(e), [pc |-> "done", resp |-> "500"]))

\* the Call is transcribing the job that delivery e is about
TranscribingJobOf(e) ==
  /\ call.status = "transcribing"
  /\ call.transcriptionJobId = e.jobId

\* C15: when a completed delivery for the job of a transcribing Call writes
\* (its update does not throw),
\* the Call becomes transcribed with exactly the delivered transcript and
\* exactly one analysis request is sent
C15_CompletedDeliveryTranscribes ==
  [][\A e \in BagToSet(wh) :
       (/\ e.pc = "update"
        /\ Left(wh, wh', e)
        /\ TranscribingJobOf(e)
        /\ ~WriteThrew(e))
         => /\ call'.status = "transcribed"
            /\ call'.transcript = e.jobId
            /\ BagCardinality(ra') = BagCardinality(ra) + 1
            /\ CopiesIn(NewRun("webhook"), ra')
                 = CopiesIn(NewRun("webhook"), ra) + 1]_vars

C15_Witness ==
  /\ BagCardinality(wh) = 1
  /\ BagCardinality(ra) = 1
  /\ CopiesIn(NewRun("webhook"), ra) = 1
  /\ call.status = "transcribed"
  /\ \E e \in BagToSet(wh) :
       /\ e.resp = "success"
       /\ call.transcriptionJobId = e.jobId
       /\ call.transcript = e.jobId

\* C16: when a failed delivery for the job of a transcribing Call writes,
\* the Call becomes failed, its transcript field is not written and no
\* analysis request is sent
C16_FailedDeliveryFails ==
  [][\A e \in BagToSet(wh) :
       (e.pc = "fail" /\ Left(wh, wh', e) /\ TranscribingJobOf(e))
         => /\ call'.status = "failed"
            /\ call'.transcript = call.transcript
            /\ ra' = ra]_vars

C16_Witness ==
  /\ call.status = "failed"
  /\ call.transcript = Null
  /\ ra = EmptyBag
  /\ \E e \in BagToSet(wh) :
       /\ e.status = "failed"
       /\ e.resp = "failed"
       /\ call.transcriptionJobId = e.jobId

\* a triggered analysis request has failed: the fetch was rejected, or the
\* route answered with an error status
TriggerFailed(r) ==
  /\ r.origin = "webhook"
  /\ r.resp \in {"fetch_failed", "400", "404", "500"}

\* C17: the delivery whose transcript write succeeded is answered success in
\* the step of the write, without waiting for the trigger, and no later
\* outcome of the triggered request changes that response
C17_SuccessWhateverTheTrigger ==
  [][/\ \A e \in BagToSet(wh) :
          (e.pc = "update" /\ Left(wh, wh', e) /\ ~WriteThrew(e))
            => Entered(wh, wh', With(Unstamped(e),
                                     [pc |-> "done", resp |-> "success"]))
     /\ \A e \in BagToSet(wh) :
          e.resp = "success" => CopiesIn(e, wh') >= CopiesIn(e, wh)]_vars

C17_Witness ==
  /\ \E e \in BagToSet(wh) : e.resp = "success"
  /\ \E r \in BagToSet(ra) : TriggerFailed(r) /\ r.resp = "fetch_failed"
  /\ \E r \in BagToSet(ra) : TriggerFailed(r) /\ r.resp = "500"

\* C18: once a poll has persisted the transcript of a completed job, a
\* later poll of that job writes nothing to the Call and sends no analysis
\* request
C18_RepeatedPollWritesOnce ==
  [][\A e \in BagToSet(pl) :
       (e.pc = "update" /\ Left(pl, pl', e) /\ PollCompletions(e.jobId) >= 1)
         => (call' = call /\ ra' = ra)]_vars

\* the responses of validation (400) and not-found (404) outcomes
Rejections == {"400", "404"}

\* a request of the bag is answered with a validation or not-found response
\* in this step
RejectedIn(bag, bagNext) ==
  \E f \in BagToSet(bagNext) :
    f.resp \in Rejections /\ Entered(bag, bagNext, f)

\* a start-transcription request is answered 404 in this step
StartRejected ==
  \E s \in DOMAIN st' :
    st'[s].resp \in Rejections /\ (s \in DOMAIN st => st[s].resp = "")

\* C19: a step in which start-transcription, poll-transcription,
\* run-analysis, delete, the webhook or createCall answers with a validation
\* or not-found response leaves the Call and the processed-jobs table
\* unchanged
C19_RejectionsMutateNothing ==
  [][(\/ StartRejected
      \/ RejectedIn(pl, pl')
      \/ RejectedIn(ra, ra')
      \/ RejectedIn(dl, dl')
      \/ RejectedIn(wh, wh')
      \/ RejectedIn(cr, cr'))
       => /\ call' = call
          /\ created' = created
          /\ processedWebhooks' = processedWebhooks]_vars

\* after the Call was deleted, a start-transcription request was answered
\* 404 and an analysis request with a body that fails the schema 400
C19_Witness ==
  /\ \E e \in BagToSet(dl) : e.resp = "200"
  /\ \E s \in DOMAIN st : st[s].resp = "404"
  /\ \E e \in BagToSet(ra) : e.body # "valid" /\ e.resp = "400"

\* C20: createCall answers 400 to every malformed body, a body that is not
\* valid JSON included
C20_MalformedCreateIs400 ==
  \A e \in BagToSet(cr) : e.body # "valid" => e.resp = "400"

\* C21: when start-transcription reaches its storage check while the audio
\* is not at audioPath, it answers 400, submits no job and leaves the Call
\* alone, whichever storage adapter is configured
C21_MissingAudioIs400 ==
  [][\A s \in DOMAIN st :
       (st[s].pc = "fileExists" /\ st'[s].pc # "fileExists" /\ ~audioUploaded)
         => /\ st'[s] = [pc |-> "done", resp |-> "400"]
            /\ call' = call
            /\ jobs' = jobs]_vars

\* C22: analyze issues at most two requests, and its second request, the
\* repair attempt, is only made after the first attempt failed schema
\* validation
C22_RepairOnlyAfterSchemaFailure ==
  op.fn = "analyze" =>
    /\ op.requests =< 2
    /\ op.requests = 2 => op.first = "schema_invalid"

\* the entries of the result are those of the input with null timestamps
\* turned into absent ones and everything else as it was
NullsDropped(entries, result) ==
  /\ Len(result) = Len(entries)
  /\ \A i \in DOMAIN entries :
       /\ result[i].text = entries[i].text
       /\ result[i].timestamp # "null"
       /\ result[i].timestamp =
            (IF entries[i].timestamp = "null" THEN "undefined"
             ELSE entries[i].timestamp)

\* C23: for an Analysis-shaped document, normalization followed by schema
\* validation succeeds, and in the result every null timestamp of a
\* checklist item, sales insight, missed opportunity or piece of stage
\* evidence is absent while all other values are those of the input
C23_NullTimestampsBecomeAbsent ==
  (op.fn = "validateAnalysis" /\ op.pc = "done" /\ analysisSchema(op.input))
    => /\ op.ok
       /\ op.data.summary = op.input.summary
       /\ \A list \in ListNames : NullsDropped(op.input[list], op.data[list])
       /\ \A n \in StageNames :
            /\ op.data.stages[n].present = op.input.stages[n].present
            /\ op.data.stages[n].hasEvidence = op.input.stages[n].hasEvidence
            /\ NullsDropped(op.input.stages[n].evidence,
                            op.data.stages[n].evidence)

C23_Witness ==
  /\ op.fn = "validateAnalysis"
  /\ op.pc = "done"
  /\ op.ok
  /\ \E n \in StageNames :
       /\ Len(op.input.stages[n].evidence) = 1
       /\ op.input.stages[n].evidence[1].timestamp = "null"
       /\ op.data.stages[n].evidence[1].timestamp = "undefined"
  /\ \E list \in ListNames :
       /\ Len(op.input[list]) = 1
       /\ op.data[list][1].timestamp = "number"

\* the tags of the provider result of the conversion that has finished
ConvertedTags == {op.items[i].speaker : i \in DOMAIN op.items}

\* the first-seen tag is labelled tech and every other tag customer
PositionalLabels ==
  \A i \in DOMAIN op.segments :
    op.segments[i].speaker =
      (IF op.rawSegments[i].speaker = op.items[1].speaker THEN "tech"
       ELSE "customer")

\* C24: when role inference throws on segments with exactly two tags, the
\* conversion completes with the first-seen tag as tech and the other as
\* customer, and no segment is unknown
C24_FallbackOnThrow ==
  (/\ op.fn = "convertToTranscript"
   /\ op.pc = "done"
   /\ op.answer = "throws"
   /\ Cardinality(ConvertedTags) = 2)
    => /\ Len(op.segments) = Len(op.rawSegments)
       /\ PositionalLabels
       /\ \A i \in DOMAIN op.segments : op.segments[i].speaker # "unknown"

C24_Witness ==
  /\ op.fn = "convertToTranscript"
  /\ op.pc = "done"
  /\ op.answer = "throws"
  /\ Cardinality(ConvertedTags) = 2
  /\ Len(op.segments) >= 2
  /\ op.items[1].speaker = "B"
  /\ op.segments[1].speaker = "tech"
  /\ \E i \in DOMAIN op.segments :
       op.rawSegments[i].speaker = "A" /\ op.segments[i].speaker = "customer"

\* C25: for two or more tags, when the model's answer names none of the
\* tags present, the mapping is the positional one
C25_FallbackOnMalformedAnswer ==
  (/\ op.fn = "convertToTranscript"
   /\ op.pc = "done"
   /\ op.answer # "throws"
   /\ Cardinality(ConvertedTags) >= 2
   /\ ToUpperCase(op.answer) \notin ConvertedTags)
    => PositionalLabels

\* pieces of the text of words b..e joined by single spaces
RECURSIVE JoinTexts(_, _, _)
JoinTexts(words, b, e) ==
  IF b = e THEN <<words[b].text>>
  ELSE <<words[b].text, " ">> \o JoinTexts(words, b + 1, e)

\* positions at which a maximal run of words of one tag starts
RunStarts(words) ==
  {i \in DOMAIN words : i = 1 \/ words[i].speaker # words[i - 1].speaker}

\* the start of the k-th run
RunStart(words, k) ==
  CHOOSE b \in RunStarts(words) :
    Cardinality({x \in RunStarts(words) : x <= b}) = k

\* the last word of the run that starts at b
RunEnd(words, b) ==
  CHOOSE e \in b .. Len(words) :
    /\ \A m \in b .. e : words[m].speaker = words[b].speaker
    /\ e = Len(words) \/ words[e + 1].speaker # words[b].speaker

Triple(k) ==
  <<op.inputs[k].userId, op.inputs[k].callId, op.inputs[k].fileName>>

\* no component of the k-th call's triple holds the separator
SeparatorFree(k) ==
  \A c \in 1 .. 3 : \A i \in DOMAIN Triple(k)[c] : Triple(k)[c][i] # "/"

\* C27: with callId supplied, two calls with the same (userId, callId,
\* fileName) return the same storagePath whichever adapters serve them, and
\* two calls with different separator-free triples return different paths
C27_StoragePathDeterministic ==
  (/\ op.fn = "getUploadUrl"
   /\ op.pc = "done"
   /\ op.inputs[1].callId # <<>>
   /\ op.inputs[2].callId # <<>>)
    => /\ Triple(1) = Triple(2) => op.storagePaths[1] = op.storagePaths[2]
       /\ (Triple(1) # Triple(2) /\ SeparatorFree(1) /\ SeparatorFree(2))
            => op.storagePaths[1] # op.storagePaths[2]

C27_Witness ==
  /\ op.fn = "getUploadUrl"
  /\ op.pc = "done"
  /\ op.adapters[1] = "mock"
  /\ op.adapters[2] = "firebase"
  /\ Triple(1) = <<<<"a">>, <<"a">>, <<>>>>
  /\ Triple(2) = Triple(1)
  /\ op.storagePaths[2] = <<"audio", "/", "a", "/", "a", "/">>
  /\ op.storagePaths[1] = op.storagePaths[2]

\* every listed Call belongs to the requested user
OnlyOf(calls, userId) == \A k \in DOMAIN calls : calls[k].userId = userId

\* the list is ordered by createdAt descending
CreatedAtDescending(calls) ==
  \A i, j \in DOMAIN calls :
    i < j => calls[i].createdAt >= calls[j].createdAt

\* both lists hold only Calls of the requested user, newest first
ListsFilteredAndOrdered ==
  /\ OnlyOf(op.indexed, op.userId)
  /\ OnlyOf(op.fallback, op.userId)
  /\ CreatedAtDescending(op.indexed)
  /\ CreatedAtDescending(op.fallback)

\* C28: the indexed path and the fallback path both list only the Calls of
\* the requested user, ordered by createdAt descending, and both return
\* the same list for the same stored data
C28_PathsReturnSameList ==
  (op.fn = "listCalls" /\ op.pc = "done")
    => ListsFilteredAndOrdered /\ op.indexed = op.fallback

\* the instants that requests in flight hold
Stamps(requests) == {e.now : e \in {f \in requests : "now" \in DOMAIN f}}

\* the instants a write of this step can carry: the clock's, or the one a
\* request read when it called update()
InstantsRead ==
  {clock} \cup Stamps({st[s] : s \in DOMAIN st}) \cup Stamps(BagToSet(wh))
    \cup Stamps(BagToSet(pl)) \cup Stamps(BagToSet(ra))

\* the step writes the Call document that exists before and after it
WritesCall == call.exists /\ call'.exists /\ call' # call

\* C29: every write that changes the Call's status also writes updatedAt,
\* no write lowers updatedAt, and createdAt =< updatedAt after every write
C29_UpdatedAtNeverDecreases ==
  [][WritesCall
       => /\ call'.status # call.status => call'.updatedAt \in InstantsRead
          /\ call'.updatedAt >= call.updatedAt
          /\ call'.createdAt =< call'.updatedAt]_vars

\* C30: no step of start-transcription, webhook, poll or run-analysis
\* changes the id, userId, audioPath or createdAt of the Call
C30_IdentityFixedAtCreation ==
  [][WritesCall
       => /\ call'.id = call.id
          /\ call'.userId = call.userId
          /\ call'.audioPath = call.audioPath
          /\ call'.createdAt = call.createdAt]_vars

C30_Witness ==
  /\ call.exists
  /\ call.status = "complete"
  /\ call.transcriptionJobId # Null
  /\ call.updatedAt > call.createdAt
  /\ call.id = "callId"
  /\ call.userId = "userId"
  /\ call.audioPath = "storagePath"
  /\ call.createdAt = 1

\* the value holds undefined at some depth
RECURSIVE HoldsUndefined(_)
HoldsUndefined(v) ==
  \/ v = Undefined
  \/ v.t = "array" /\ \E i \in DOMAIN v.items : HoldsUndefined(v.items[i])
  \/ v.t = "object" /\ \E k \in DOMAIN v.fields : HoldsUndefined(v.fields[k])

\* C31: the update of a successful run carries status complete together
\* with the cleaned analysis; the cleaned analysis holds undefined at no
\* depth, an object has lost exactly its undefined fields, and cleaning the
\* cleaned analysis returns it unchanged
C31_CleanedAnalysisHasNoUndefined ==
  (op.fn = "removeUndefinedValues" /\ op.pc = "done")
    => /\ DOMAIN op.update = {"analysis", "status"}
       /\ op.update.status = "complete"
       /\ ~HoldsUndefined(op.update.analysis)
       /\ op.value.t = "object"
            => /\ op.update.analysis.t = "object"
               /\ DOMAIN op.update.analysis.fields =
                    {k \in DOMAIN op.value.fields :
                       op.value.fields[k] # Undefined}
       /\ op.again = op.update.analysis

C31_Witness ==
  /\ op.fn = "removeUndefinedValues"
  /\ op.pc = "done"
  /\ op.value = ObjectOf([k \in Keys |->
                            IF k = "a" THEN ArrayOf(<<Undefined, Number>>)
                            ELSE Undefined])
  /\ op.update.analysis =
       ObjectOf([k \in {"a"} |-> ArrayOf(<<NullValue, Number>>)])

\* ------------------------------------------------------------------ C32
\* C32: when the transcription credential is absent, no handler that needs
\* a transcription adapter fails because of it: start-transcription and the
\* webhook work with the mock adapter, and a poll-transcription request for
\* a Call that has a job is not answered with the error response
C32_NoFailureWithoutCredential ==
  ~useAssemblyAI =>
    /\ SelectedAdapter(useAssemblyAI) = "mock"
    /\ WebhookAdapter(useAssemblyAI) = "mock"
    /\ \A e \in BagToSet(pl) : e.jobId # Null => e.resp # "500"

\* ------------------------------------------------------------------ C33
\* a DELETE request has answered success
DeleteSucceeded == \E e \in BagToSet(dl) : e.resp = "200"

\* C33: once a DELETE has succeeded, the Call record with its transcript
\* and analysis stays absent: no start-transcription, webhook, poll or
\* run-analysis request that was in flight writes it back
C33_DeletedCallStaysAbsent == DeleteSucceeded => call = NoCall

\* the Call was deleted while a completed delivery, which had found it by
\* its jobId, was about to write the transcript; the delivery's update has
\* since thrown and was answered 500
C33_Witness ==
  /\ DeleteSucceeded
  /\ call = NoCall
  /\ \E e \in BagToSet(wh) :
       e.sig = "valid" /\ e.status = "completed" /\ e.resp = "500"

\* ------------------------------------------------------------------ C34
\* C34: a Call whose status is transcribed, analyzing or complete has a
\* transcript
C34_TranscriptBehindStatus ==
  (call.exists /\ call.status \in {"transcribed", "analyzing", "complete"})
    => call.transcript # Null

\* a completed delivery without a transcript found the Call and was
\* answered "unknown"; a later delivery with the transcript was written
\* and the analysis that it triggered has set the Call to analyzing
C34_Witness ==
  /\ call.status = "analyzing"
  /\ call.transcript # Null
  /\ \E e \in BagToSet(wh) :
       e.status = "completed" /\ ~e.transcript /\ e.resp = "unknown"
  /\ \E e \in BagToSet(wh) : e.transcript /\ e.resp = "success"

\* ------------------------------------------------------------------ C35
\* C35: a Call whose status is complete has an analysis
C35_AnalysisBehindComplete ==
  (call.exists /\ call.status = "complete") => call.analysis # Null

\* a run-analysis request has written the analysis with status complete and
\* answered 200, after another one had failed and marked the Call failed
C35_Witness ==
  /\ call.status = "complete"
  /\ call.analysis # Null
  /\ \E e \in BagToSet(ra) : e.resp = "200"
  /\ \E e \in BagToSet(ra) : e.resp = "500"

\* ------------------------------------------------------------------ C36
\* a delivery of job j was answered not-found
AnsweredNotFound(j) ==
  \E e \in BagToSet(wh) : e.jobId = j /\ e.resp = "404"

\* C36: a delivery whose jobId is on no Call (start-transcription has not
\* persisted it yet) is answered not-found and leaves the processed-jobs
\* table and the Call alone; and a delivery of a job of which no delivery
\* has written yet is not acknowledged as already processed on arrival
C36_EarlyDeliveryNotRecorded ==
  [][/\ \A e \in BagToSet(wh) :
          (e.pc = "query" /\ Left(wh, wh', e) /\ ~FindByJobId(call, e.jobId))
            => /\ Entered(wh, wh', With(e, [pc |-> "done", resp |-> "404"]))
               /\ processedWebhooks' = processedWebhooks
               /\ call' = call
     /\ \A f \in BagToSet(wh') :
          (Arrived(f) /\ f.jobId # Null /\ WebhookSuccesses(f.jobId) = 0)
            => f.resp # "already_processed"]_vars

\* one start-transcription request and two deliveries of its job: the
\* first was answered not-found, the second wrote the transcript
C36_Witness ==
  /\ Len(st) = 1
  /\ st[1].resp = "200"
  /\ AnsweredNotFound(1)
  /\ WebhookSuccesses(1) = 1
  /\ call.status = "transcribed"
  /\ call.transcriptionJobId = 1
  /\ call.transcript = 1

\* ------------------------------------------------------------------ C37
\* delivery e writes the transcript of its job in this step and is answered
\* success
WroteTranscript(e) ==
  /\ e.pc = "update"
  /\ Left(wh, wh', e)
  /\ Entered(wh, wh', With(Unstamped(e), [pc |-> "done", resp |-> "success"]))
  /\ call'.status = "transcribed"
  /\ call'.transcript = e.jobId

\* C37: a jobId enters the processed-jobs table only in the step in which a
\* delivery of that job writes the transcript; a delivery whose write
\* throws leaves the table and the Call as they were, and a delivery is
\* acknowledged as already processed only if a delivery of its job has
\* written
C37_ProcessedOnlyAfterWrite ==
  [][/\ \A e \in BagToSet(wh) :
          (e.pc = "update" /\ Left(wh, wh', e) /\ WriteThrew(e))
            => (processedWebhooks' = processedWebhooks /\ call' = call)
     /\ \A j \in processedWebhooks' \ processedWebhooks :
          \E e \in BagToSet(wh) : e.jobId = j /\ WroteTranscript(e)
     /\ \A f \in BagToSet(wh') :
          (Arrived(f) /\ f.resp = "already_processed")
            => WebhookSuccesses(f.jobId) >= 1]_vars

\* the write of a delivery threw while the Call was there (500) and the job
\* was not recorded, so that another delivery of the same payload was
\* processed: it wrote the transcript and was answered success
C37_Witness ==
  /\ call.status = "transcribed"
  /\ call.transcript = 1
  /\ processedWebhooks = {1}
  /\ BagCardinality(dl) = 0
  /\ \E e \in BagToSet(wh) :
       /\ e.jobId = 1
       /\ e.sig = "valid"
       /\ e.transcript
       /\ e.resp = "500"
       /\ CopiesIn(With(e, [resp |-> "success"]), wh) = 1

\* ------------------------------------------------------------------ C38
\* C38: every delivery that has written to the Call (answered success or
\* failed) and has finished has its jobId in the processed-jobs table
C38_MutatingDeliveryIsRecorded ==
  \A e \in BagToSet(wh) :
    (e.pc = "done" /\ e.resp \in {"success", "failed"})
      => e.jobId \in processedWebhooks

\* ------------------------------------------------------------------ C39
\* C39: the callback that the provider sends for a job submitted through
\* the AssemblyAI adapter is read in that adapter's form: it is not turned
\* away by the signature check or by the payload schema
C39_ProviderCallbackAccepted ==
  \A e \in BagToSet(wh) :
    e.transcriptId # Null => e.resp \notin {"400", "401", "500"}

\* ------------------------------------------------------------------ C40
\* the fetch of an analysis request that a delivery triggered was rejected
TriggerLost ==
  \E r \in BagToSet(ra) : r.origin = "webhook" /\ r.resp = "fetch_failed"

\* C40: a Call that a delivery has set to transcribed and whose analysis
\* trigger has failed eventually is complete or failed, when every handler
\* that can take a step eventually takes one and the provider keeps
\* delivering the webhook of each job
C40_TranscribedLeadsToTerminal ==
  (call.exists /\ call.status = "transcribed" /\ TriggerLost)
    ~> (call.exists /\ call.status \in {"complete", "failed"})

\* (a delivery arrives only while Requests < MaxRequests: the guard of the
\* two arrival actions is stated once more in front of their quantifiers)
Next ==
  \/ \E body \in CreateBodies : CreateCall(body)
  \/ DeleteGet
  \/ \E e \in BagToSet(dl) : DeleteDo(e)
  \/ UploadAudio
  \/ StartGet
  \/ \E s \in DOMAIN st : StartFileExists(s)
  \/ \E s \in DOMAIN st : StartSubmit(s)
  \/ \E s \in DOMAIN st : StartUpdate(s)
  \/ \E j \in JobIds : JobFinishes(j)
  \/ \E body \in RunBodies : RunManual(body)
  \/ \E e \in BagToSet(ra) : RunFetchFails(e)
  \/ \E e \in BagToSet(ra) : RunGet(e)
  \/ \E e \in BagToSet(ra) : RunSetAnalyzing(e)
  \/ \E e \in BagToSet(ra) : RunAnalyze(e)
  \/ /\ Requests < MaxRequests
     /\ \E j \in JobIds \cup {Null}, sig \in Signatures, whole \in BOOLEAN :
          WebhookReceive(j, sig, whole)
  \/ /\ Requests < MaxRequests
     /\ \E j \in JobIds, sig \in Signatures : AssemblyAICallback(j, sig)
  \/ \E e \in BagToSet(wh) : WebhookQuery(e)
  \/ \E e \in BagToSet(wh) : WebhookUpdate(e)
  \/ \E e \in BagToSet(wh) : WebhookFail(e)
  \/ PollGet
  \/ \E e \in BagToSet(pl) : PollGetJobStatus(e)
  \/ \E e \in BagToSet(pl) : PollUpdate(e)
  \/ \E e \in BagToSet(pl) : PollFail(e)

\* the request handlers with the transcription provider configured
HandlerInit == Init /\ useAssemblyAI

Spec == HandlerInit /\ [][Next]_vars

\* the request handlers under every configuration, the one without the
\* provider's API key included
ConfigSpec == Init /\ [][Next]_vars

\* the automatic pipeline under fair scheduling: one Call, one
\* start-transcription request, the provider delivering the webhook of a
\* submitted job again and again (a delivery that was answered leaves), the
\* analysis requests that the deliveries trigger
FairInit ==
  /\ Init
  /\ ~production
  /\ ~useFirebaseStorage

FairStart == Len(st) = 0 /\ StartGet

FairStartSteps ==
  \E s \in DOMAIN st : StartFileExists(s) \/ StartSubmit(s) \/ StartUpdate(s)

FairProvider == \E j \in JobIds : JobFinishes(j)

FairDelivery == \E j \in JobIds : WebhookReceive(j, "valid", TRUE)

FairWebhookSteps ==
  \E e \in BagToSet(wh) :
    WebhookQuery(e) \/ WebhookUpdate(e) \/ WebhookFail(e) \/ WebhookReturn(e)

FairTriggerFails == \E e \in BagToSet(ra) : RunFetchFails(e)

FairRunSteps ==
  \E e \in BagToSet(ra) : RunGet(e) \/ RunSetAnalyzing(e) \/ RunAnalyze(e)

FairNext ==
  \/ CreateCall("valid")
  \/ FairStart
  \/ FairStartSteps
  \/ FairProvider
  \/ FairDelivery
  \/ FairWebhookSteps
  \/ FairTriggerFails
  \/ FairRunSteps

\* the event loop runs every handler that can take a step, the provider
\* finishes every job and delivers its webhook whenever it can, again after
\* each answer; whether a trigger's fetch fails is not up to the scheduler
Fairness ==
  /\ WF_vars(FairStartSteps)
  /\ WF_vars(FairProvider)
  /\ SF_vars(FairDelivery)
  /\ WF_vars(FairWebhookSteps)
  /\ WF_vars(FairRunSteps)

FairSpec == FairInit /\ [][FairNext]_vars /\ Fairness

\* the handlers with time passing between their steps: development mode
\* with the mock storage, well-formed requests and no deletion
TimedInit ==
  /\ Init
  /\ ~production
  /\ ~useFirebaseStorage
  /\ useAssemblyAI

TimedNext ==
  \/ Tick
  \/ CreateCall("valid")
  \/ StartGet
  \/ \E s \in DOMAIN st : StartFileExists(s)
  \/ \E s \in DOMAIN st : StartSubmit(s)
  \/ \E s \in DOMAIN st : StartUpdate(s)
  \/ \E j \in JobIds : JobFinishes(j)
  \/ RunManual("valid")
  \/ \E e \in BagToSet(ra) : RunFetchFails(e)
  \/ \E e \in BagToSet(ra) : RunGet(e)
  \/ \E e \in BagToSet(ra) : RunSetAnalyzing(e)
  \/ \E e \in BagToSet(ra) : RunAnalyze(e)
  \/ \E j \in JobIds : WebhookReceive(j, "valid", TRUE)
  \/ \E e \in BagToSet(wh) : WebhookQuery(e)
  \/ \E e \in BagToSet(wh) : WebhookUpdate(e)
  \/ \E e \in BagToSet(wh) : WebhookFail(e)
  \/ PollGet
  \/ \E e \in BagToSet(pl) : PollGetJobStatus(e)
  \/ \E e \in BagToSet(pl) : PollUpdate(e)
  \/ \E e \in BagToSet(pl) : PollFail(e)

TimedSpec == TimedInit /\ [][TimedNext]_vars

\* the adapters' methods, each followed on its own from its inputs to its
\* result while the request handlers stand still
AdapterInit ==
  /\ PipelineInit
  /\ ~production
  /\ ~useFirebaseStorage
  /\ ~useAssemblyAI
  /\ op \in AdapterCalls

AdapterNext ==
  \/ \E o \in Completions : AnalyzeFirst(o)
  \/ \E o \in Completions : AnalyzeRepair(o)
  \/ \E list \in ListNames, t \in Timestamps : ValidateInputEntry(list, t)
  \/ \E n \in StageNames, t \in Timestamps : ValidateInputEvidence(n, t)
  \/ ValidatePreprocess
  \/ ValidateParse
  \/ \E tag \in Tags, text \in Texts : ConvertInput(tag, text)
  \/ ConvertSegments
  \/ \E answer \in Answers : ConvertIdentify(answer)
  \/ \E k \in 1 .. 2, field \in InputFields, c \in Chars :
       UploadUrlInput(k, field, c)
  \/ \E generated \in [1 .. 2 -> GeneratedCallIds] : GetUploadUrl(generated)
  \/ \E id \in DocIds, userId \in UserIds, createdAt \in CreatedAts :
       ListStoreCall(id, userId, createdAt)
  \/ \E param \in UserIdParams : ListIndexed(param)
  \/ ListFallback
  \/ \E others \in {<<>>} \cup {<<x>> : x \in Leaves} : CleanInputArray(others)
  \/ \E key \in Keys, others \in UNION {[K -> Leaves] : K \in SUBSET Keys} :
       CleanInputObject(key, others)
  \/ CleanAnalysis

AdapterSpec == AdapterInit /\ [][AdapterNext]_vars
====
